---------------------------- MODULE Spec2Model ----------------------------
(***************************************************************************)
(* Point-segment and point-triangle squared distance of libgjk (vec3.c).   *)
(*                                                                         *)
(* gjk_real_t values are modelled as exact rationals n/d in lowest terms   *)
(* (d > 0); the result of a division by zero is the non-finite value with  *)
(* d = 0, which propagates through arithmetic and compares false with      *)
(* everything, as an IEEE NaN does.  Vectors are triples of reals, and the *)
(* caller's storage is a memory of named cells so that a witness pointer   *)
(* can be NULL, a separate cell, or the cell that holds the query point.   *)
(***************************************************************************)
EXTENDS Integers, Sequences, FiniteSets, TLC

(***************************************************************************)
(* Bounds of the model.                                                    *)
(***************************************************************************)
\* the vertices' x coordinate ranges over 0 .. MaxCoord
MaxCoord == 1
\* the segment and the triangle are sampled at multiples of 1 / SampleSteps
SampleSteps == 3
\* number of concurrent calls in SpecConc
NCalls == 2

(***************************************************************************)
(* gjk_real_t                                                              *)
(***************************************************************************)
Abs(i) == IF i < 0 THEN -i ELSE i

RECURSIVE GCD(_, _)
GCD(a, b) == IF b = 0 THEN a ELSE GCD(b, a % b)

Reduce(n, d, g) == [n |-> n \div g, d |-> d \div g]
\* the real n/d, d > 0, in lowest terms
Norm(n, d) == IF d = 1 THEN [n |-> n, d |-> 1] ELSE Reduce(n, d, GCD(Abs(n), d))

R(i) == [n |-> i, d |-> 1]
NaN == [n |-> 0, d |-> 0]
IsFinite(x) == x.d # 0

GJK_ZERO == R(0)
GJK_ONE == R(1)

\* x + y over the common denominator x.d * y.d / g, g the gcd of the two
RAddG(x, y, g) ==
    Norm(x.n * (y.d \div g) + y.n * (x.d \div g), (x.d \div g) * y.d)
RNeg(x) == IF IsFinite(x) THEN [n |-> -x.n, d |-> x.d] ELSE NaN
RAdd(x, y) == IF x.d = 1 /\ y.d = 1 THEN [n |-> x.n + y.n, d |-> 1]
              ELSE IF IsFinite(x) /\ IsFinite(y)
              THEN RAddG(x, y, GCD(x.d, y.d)) ELSE NaN
RSub(x, y) == RAdd(x, RNeg(y))
RMul(x, y) == IF x.d = 1 /\ y.d = 1 THEN [n |-> x.n * y.n, d |-> 1]
              ELSE IF IsFinite(x) /\ IsFinite(y)
              THEN Norm(x.n * y.n, x.d * y.d) ELSE NaN
\* x / y; a zero divisor gives a non-finite value
RDiv(x, y) == IF IsFinite(x) /\ IsFinite(y) /\ y.n # 0
              THEN Norm((IF y.n < 0 THEN -1 ELSE 1) * x.n * y.d, x.d * Abs(y.n))
              ELSE NaN
\* x < y and x > y; false when either side is not finite
RLt(x, y) == IsFinite(x) /\ IsFinite(y) /\ x.n * y.d < y.n * x.d
RGt(x, y) == RLt(y, x)
RLe(x, y) == IsFinite(x) /\ IsFinite(y) /\ x.n * y.d <= y.n * x.d

\* the tolerance GJK_EPS is 1 / EpsDen
EpsDen == 100000
\* |x| < GJK_EPS, i.e. |n| * EpsDen < d
gjkIsZero(x) == IsFinite(x) /\ Abs(x.n) <= (x.d - 1) \div EpsDen
gjkEq(x, y) == gjkIsZero(RSub(x, y))

(***************************************************************************)
(* gjk_vec3_t                                                              *)
(***************************************************************************)
Vec(x, y, z) == <<R(x), R(y), R(z)>>
gjkVec3Sub2(v, w) == <<RSub(v[1], w[1]), RSub(v[2], w[2]), RSub(v[3], w[3])>>
gjkVec3Add(v, w) == <<RAdd(v[1], w[1]), RAdd(v[2], w[2]), RAdd(v[3], w[3])>>
gjkVec3Scale(v, k) == <<RMul(v[1], k), RMul(v[2], k), RMul(v[3], k)>>
gjkVec3Dot(v, w) ==
    RAdd(RAdd(RMul(v[1], w[1]), RMul(v[2], w[2])), RMul(v[3], w[3]))
gjkVec3Len2(v) == gjkVec3Dot(v, v)
gjkVec3Dist2(v, w) == gjkVec3Len2(gjkVec3Sub2(v, w))

(***************************************************************************)
(* Storage.  A pointer is the name of a cell, or NULL.                     *)
(***************************************************************************)
NULL == "NULL"
\* the caller's cells, the file-scope origin vector, and the cell of the
\* triangle routine's local witness2 (its address is passed on)
CallerCells == {"P", "x0", "B", "C", "W"}
Cells == CallerCells \cup {"origin", "witness2"}
\* a cell that holds no value yet
Uninit == <<>>
\* what the caller's witness cell holds before the call
SlotInit == Vec(7, 7, 7)
\* gjkVec3Copy(dst, src) and friends, on the memory m
gjkVec3Copy(m, dst, v) == [m EXCEPT ![dst] = v]

(***************************************************************************)
(* __gjkVec3PointSegmentDist2.  The result is the returned distance, the   *)
(* memory after the call, and a log of the call: the cells it wrote, the   *)
(* branch it took and the divisor it used.  Each local of the C routine is *)
(* a parameter of the operator that continues from its assignment.         *)
(***************************************************************************)
Written(witness) == IF witness # NULL THEN {witness} ELSE {}

\* dist = gjkVec3Dist2(witness, P)
SegInnerDist(m, P, witness) ==
    [dist |-> gjkVec3Dist2(m[witness], m[P]), mem |-> m]

\* gjkVec3Add(witness, x0)
SegInnerAdd(m, P, x0, witness) ==
    SegInnerDist(gjkVec3Copy(m, witness, gjkVec3Add(m[witness], m[x0])),
                 P, witness)

\* gjkVec3Scale(witness, t)
SegInnerScale(m, P, x0, t, witness) ==
    SegInnerAdd(gjkVec3Copy(m, witness, gjkVec3Scale(m[witness], t)),
                P, x0, witness)

\* the else branch with a witness: the witness cell is the working vector
SegInnerWitness(m, P, x0, d, t, witness) ==
    SegInnerScale(gjkVec3Copy(m, witness, d), P, x0, t, witness)

\* the else branch without a witness: d is recycled
SegInnerNoWitness(d, a, t) ==
    gjkVec3Len2(gjkVec3Add(gjkVec3Scale(d, t), a))

\* SegEnd without the copy into the witness
SegEndNoCopy(m, P, e, witness) ==
    [dist |-> gjkVec3Dist2(m[e], m[P]), mem |-> m]

\* an endpoint branch: the distance is taken first, then the copy is made
SegEnd(m, P, e, witness) ==
    [dist |-> gjkVec3Dist2(m[e], m[P]),
     mem |-> IF witness # NULL THEN gjkVec3Copy(m, witness, m[e]) ELSE m]

\* SegBranch without the test against 1
SegBranchNoUpper(t) ==
    IF RLt(t, GJK_ZERO) \/ gjkIsZero(t) THEN "x0" ELSE "inner"

SegBranch(t) ==
    IF RLt(t, GJK_ZERO) \/ gjkIsZero(t) THEN "x0"
    ELSE IF RGt(t, GJK_ONE) \/ gjkEq(t, GJK_ONE) THEN "b"
    ELSE "inner"

\* the if / else if / else on t
SegClamp(m, P, x0, b, witness, d, a, t, br) ==
    CASE br = "x0" -> SegEnd(m, P, x0, witness)
      [] br = "b" -> SegEnd(m, P, b, witness)
      [] OTHER -> IF witness # NULL
                  THEN SegInnerWitness(m, P, x0, d, t, witness)
                  ELSE [dist |-> SegInnerNoWitness(d, a, t), mem |-> m]

SegLogged(r, witness, br, div) ==
    [dist |-> r.dist, mem |-> r.mem,
     log |-> [wr |-> Written(witness), branch |-> br, div |-> div]]

\* SegT with a guard: a zero-length segment is given t = 0
SegTGuarded(d, a) ==
    IF gjkVec3Len2(d) = GJK_ZERO THEN GJK_ZERO
    ELSE RDiv(RMul(R(-1), gjkVec3Dot(a, d)), gjkVec3Len2(d))

\* t = -1 * (a . d); t /= |d|^2
SegT(d, a) == RDiv(RMul(R(-1), gjkVec3Dot(a, d)), gjkVec3Len2(d))

SegAt(m, P, x0, b, witness, d, a, t) ==
    SegLogged(SegClamp(m, P, x0, b, witness, d, a, t, SegBranch(t)),
              witness, SegBranch(t), gjkVec3Len2(d))

SegFrom(m, P, x0, b, witness, d, a) ==
    SegAt(m, P, x0, b, witness, d, a, SegT(d, a))

__gjkVec3PointSegmentDist2(m, P, x0, b, witness) ==
    SegFrom(m, P, x0, b, witness,
            gjkVec3Sub2(m[b], m[x0]), gjkVec3Sub2(m[x0], m[P]))

gjkVec3PointSegmentDist2(m, P, x0, b, witness) ==
    __gjkVec3PointSegmentDist2(m, P, x0, b, witness)

(***************************************************************************)
(* gjkVec3PointTriDist2.                                                   *)
(***************************************************************************)
\* TriDivisors with t divided by r
TriDivisorsTypo(v, w, r) == <<RSub(RMul(w, v), RMul(r, r)), r>>

\* the two divisors: of s, (w * v - r * r), and of t, w
TriDivisors(v, w, r) == <<RSub(RMul(w, v), RMul(r, r)), w>>

\* s = (q * r - w * p) / (w * v - r * r)
TriS(p, q, r, w, div) == RDiv(RSub(RMul(q, r), RMul(w, p)), div[1])

\* t = (-s * r - q) / w
TriT(s, q, r, div) == RDiv(RSub(RMul(RNeg(s), r), q), div[2])

TriCoefST(d1, d2, a, u, v, w, p, q, r, div, s) ==
    [d1 |-> d1, d2 |-> d2, a |-> a, u |-> u, v |-> v, w |-> w,
     p |-> p, q |-> q, r |-> r, div |-> div,
     s |-> s, t |-> TriT(s, q, r, div)]

TriCoefDiv(d1, d2, a, u, v, w, p, q, r, div) ==
    TriCoefST(d1, d2, a, u, v, w, p, q, r, div, TriS(p, q, r, w, div))

TriCoefDots(d1, d2, a, u, v, w, p, q, r) ==
    TriCoefDiv(d1, d2, a, u, v, w, p, q, r, TriDivisors(v, w, r))

TriCoefVecs(d1, d2, a) ==
    TriCoefDots(d1, d2, a, gjkVec3Dot(a, a), gjkVec3Dot(d1, d1),
                gjkVec3Dot(d2, d2), gjkVec3Dot(a, d1), gjkVec3Dot(a, d2),
                gjkVec3Dot(d1, d2))

\* the coefficients of D(s, t) and its unconstrained minimizer
TriCoef(m, P, x0, B, C) ==
    TriCoefVecs(gjkVec3Sub2(m[B], m[x0]), gjkVec3Sub2(m[C], m[x0]),
                gjkVec3Sub2(m[x0], m[P]))

\* TriAccept without the test of t + s
TriAcceptNoSum(s, t) ==
    /\ (gjkIsZero(s) \/ RGt(s, GJK_ZERO))
    /\ (gjkEq(s, GJK_ONE) \/ RLt(s, GJK_ONE))
    /\ (gjkIsZero(t) \/ RGt(t, GJK_ZERO))
    /\ (gjkEq(t, GJK_ONE) \/ RLt(t, GJK_ONE))

\* the test of the if: the minimizer is taken as the solution
TriAccept(s, t) ==
    /\ (gjkIsZero(s) \/ RGt(s, GJK_ZERO))
    /\ (gjkEq(s, GJK_ONE) \/ RLt(s, GJK_ONE))
    /\ (gjkIsZero(t) \/ RGt(t, GJK_ZERO))
    /\ (gjkEq(t, GJK_ONE) \/ RLt(t, GJK_ONE))
    /\ (gjkEq(RAdd(t, s), GJK_ONE) \/ RLt(RAdd(t, s), GJK_ONE))

\* dist = gjkVec3Dist2(witness, P)
TriInnerDist(m, P, witness) ==
    [dist |-> gjkVec3Dist2(m[witness], m[P]), mem |-> m]

\* gjkVec3Add(witness, &d2)
TriInnerAdd2(m, P, d2, witness) ==
    TriInnerDist(gjkVec3Copy(m, witness, gjkVec3Add(m[witness], d2)),
                 P, witness)

\* gjkVec3Add(witness, &d1)
TriInnerAdd1(m, P, d1, d2, witness) ==
    TriInnerAdd2(gjkVec3Copy(m, witness, gjkVec3Add(m[witness], d1)),
                 P, d2, witness)

\* accepted, with a witness: d1 and d2 are scaled, then the witness cell is
\* built up in place from x0
TriInnerWitness(m, P, x0, c, witness) ==
    TriInnerAdd1(gjkVec3Copy(m, witness, m[x0]), P,
                 gjkVec3Scale(c.d1, c.s), gjkVec3Scale(c.d2, c.t), witness)

\* TriInnerNoWitness with the factor 2 of the mixed term s t r left out
TriInnerNoWitnessHalf(c) ==
    RAdd(RAdd(RAdd(RAdd(RAdd(RMul(RMul(c.s, c.s), c.v),
                             RMul(RMul(c.t, c.t), c.w)),
                        RMul(RMul(c.s, c.t), c.r)),
                   RMul(RMul(R(2), c.s), c.p)),
              RMul(RMul(R(2), c.t), c.q)),
         c.u)

\* accepted, without a witness: the quadratic form
TriInnerNoWitness(c) ==
    RAdd(RAdd(RAdd(RAdd(RAdd(RMul(RMul(c.s, c.s), c.v),
                             RMul(RMul(c.t, c.t), c.w)),
                        RMul(RMul(RMul(R(2), c.s), c.t), c.r)),
                   RMul(RMul(R(2), c.s), c.p)),
              RMul(RMul(R(2), c.t), c.q)),
         c.u)

\* TriTakeEdge replacing the result on a tie as well
TriTakeEdgeOnTie(dist, r2, witness) ==
    IF RLe(r2.dist, dist)
    THEN [dist |-> r2.dist,
          mem |-> IF witness # NULL
                  THEN gjkVec3Copy(r2.mem, witness, r2.mem["witness2"])
                  ELSE r2.mem,
          took |-> TRUE]
    ELSE [dist |-> dist, mem |-> r2.mem, took |-> FALSE]

\* after a later edge: it replaces the result when strictly nearer
TriTakeEdge(dist, r2, witness) ==
    IF RLt(r2.dist, dist)
    THEN [dist |-> r2.dist,
          mem |-> IF witness # NULL
                  THEN gjkVec3Copy(r2.mem, witness, r2.mem["witness2"])
                  ELSE r2.mem,
          took |-> TRUE]
    ELSE [dist |-> dist, mem |-> r2.mem, took |-> FALSE]

\* TriEdges with the second edge evaluated twice and (B, C) never
TriEdgesRepeat(x0, B, C, witness) ==
    << <<x0, B, witness>>, <<x0, C, "witness2">>, <<x0, C, "witness2">> >>

\* the three edges, in the order they are evaluated, with the witness
\* pointer each call is given
TriEdges(x0, B, C, witness) ==
    << <<x0, B, witness>>, <<x0, C, "witness2">>, <<B, C, "witness2">> >>

TriFallbackDone(e, r1, r2, k2, r3, k3) ==
    [dist |-> k3.dist, mem |-> k3.mem, edges |-> e,
     segs |-> <<[dist |-> r1.dist, log |-> r1.log],
                [dist |-> r2.dist, log |-> r2.log],
                [dist |-> r3.dist, log |-> r3.log]>>,
     from |-> IF k3.took THEN 3 ELSE IF k2.took THEN 2 ELSE 1]

TriFallback5(e, witness, r1, r2, k2, r3) ==
    TriFallbackDone(e, r1, r2, k2, r3, TriTakeEdge(k2.dist, r3, witness))

TriFallback4(m, P, e, witness, r1, r2, k2) ==
    TriFallback5(e, witness, r1, r2, k2,
        __gjkVec3PointSegmentDist2(k2.mem, P, e[3][1], e[3][2], e[3][3]))

TriFallback3(m, P, e, witness, r1, r2) ==
    TriFallback4(m, P, e, witness, r1, r2,
                 TriTakeEdge(r1.dist, r2, witness))

TriFallback2(m, P, e, witness, r1) ==
    TriFallback3(m, P, e, witness, r1,
        __gjkVec3PointSegmentDist2(r1.mem, P, e[2][1], e[2][2], e[2][3]))

TriFallback1(m, P, e, witness) ==
    TriFallback2(m, P, e, witness,
        __gjkVec3PointSegmentDist2(m, P, e[1][1], e[1][2], e[1][3]))

\* the else branch: the nearest of the three edges
TriFallback(m, P, x0, B, C, witness) ==
    TriFallback1(m, P, TriEdges(x0, B, C, witness), witness)

TriAccepted(r, c, witness) ==
    [dist |-> r.dist, mem |-> r.mem,
     log |-> [wr |-> Written(witness), branch |-> "accept", edges |-> <<>>,
              segs |-> <<>>, from |-> 0, div |-> c.div]]

\* witness2 dies with the call
TriFellBack(f, c, witness) ==
    [dist |-> f.dist, mem |-> [f.mem EXCEPT !["witness2"] = Uninit],
     log |-> [wr |-> Written(witness) \cup {"witness2"},
              branch |-> "fallback", edges |-> f.edges, segs |-> f.segs,
              from |-> f.from, div |-> c.div]]

TriWith(m, P, x0, B, C, witness, c) ==
    IF TriAccept(c.s, c.t)
    THEN TriAccepted(IF witness # NULL
                     THEN TriInnerWitness(m, P, x0, c, witness)
                     ELSE [dist |-> TriInnerNoWitness(c), mem |-> m],
                     c, witness)
    ELSE TriFellBack(TriFallback(m, P, x0, B, C, witness), c, witness)

gjkVec3PointTriDist2(m, P, x0, B, C, witness) ==
    TriWith(m, P, x0, B, C, witness, TriCoef(m, P, x0, B, C))

(***************************************************************************)
(* The callers: one call of either routine on inputs from the grid.        *)
(***************************************************************************)
VARIABLES
    mem0,     \* the memory when the call was made
    call,     \* the routine called and its witness pointer
    mem,      \* the memory now
    ret,      \* the returned distance, once the call has returned
    log,      \* the log of the call
    pc,       \* "ready" before the call, "done" after it
    loc       \* the locals of the calls in progress (calls run step by step
              \* in SpecConc only)

vars == <<mem0, call, mem, ret, log, pc, loc>>

\* the segment's and the triangle's vertices; the query point may also lie
\* one step outside their grid
Vertices == {Vec(x, y, z) : x \in 0 .. MaxCoord, y \in 0 .. 1, z \in 0 .. 1}
Points == {Vec(x, y, z) : x \in -1 .. MaxCoord, y \in 0 .. 1, z \in 0 .. 1}
Origin == Vec(0, 0, 0)

\* |d1|^2 |d2|^2 - (d1 . d2)^2, zero exactly when d1 and d2 are parallel or
\* one of them is zero
Gram(d1, d2) ==
    RSub(RMul(gjkVec3Len2(d1), gjkVec3Len2(d2)),
         RMul(gjkVec3Dot(d1, d2), gjkVec3Dot(d1, d2)))

\* the triangle's precondition: B - x0 and C - x0 are non-zero and not
\* parallel
NonDegenerate(m) ==
    Gram(gjkVec3Sub2(m["B"], m["x0"]), gjkVec3Sub2(m["C"], m["x0"])) # GJK_ZERO

Memory(P, x0, B, C) ==
    [a \in Cells |->
        CASE a = "P" -> P [] a = "x0" -> x0 [] a = "B" -> B [] a = "C" -> C
          [] a = "W" -> SlotInit [] a = "origin" -> Origin
          [] OTHER -> Uninit]

\* the witness pointers a caller passes: none, or a cell of its own
Slots == {NULL, "W"}

InitWith(slots) ==
    /\ pc = "ready"
    /\ ret = NaN
    /\ log = <<>>
    /\ loc = <<>>
    /\ \E fn \in {"seg", "tri"}, w \in slots :
          call = [fn |-> fn, witness |-> w]
    /\ \E P \in Points, x0 \in Vertices, B \in Vertices, C \in Vertices :
          /\ mem = Memory(P, x0, B, C)
          /\ call.fn = "seg" => C = Origin
          /\ call.fn = "tri" => NonDegenerate(mem)
    /\ mem0 = mem

Init == InitWith(Slots)

Return(r) ==
    /\ mem' = r.mem
    /\ ret' = r.dist
    /\ log' = r.log
    /\ pc' = "done"
    /\ UNCHANGED <<mem0, call, loc>>

CallSegment ==
    /\ pc = "ready"
    /\ call.fn = "seg"
    /\ Return(gjkVec3PointSegmentDist2(mem, "P", "x0", "B", call.witness))

CallTriangle ==
    /\ pc = "ready"
    /\ call.fn = "tri"
    /\ Return(gjkVec3PointTriDist2(mem, "P", "x0", "B", "C", call.witness))

Next == CallSegment \/ CallTriangle

Spec == Init /\ [][Next]_vars

\* the same callers, which may also pass the query point's own cell as the
\* witness slot (in-place projection)
AliasSlots == {NULL, "W", "P"}
InitAlias == InitWith(AliasSlots)
SpecAlias == InitAlias /\ [][Next]_vars

(***************************************************************************)
(* Concurrent calls.  NCalls calls run at once, one statement (or one run  *)
(* of statements on locals) at a time, in any interleaving.  They share    *)
(* the inputs and the origin vector; each has its own witness slot, or     *)
(* none.  A call's parameters and locals live in its frame; its witness2   *)
(* is a cell, for its address is handed to the segment routine.            *)
(***************************************************************************)
Calls == 1 .. NCalls
In(name) == <<name, 0>>
NullPtr == In("NULL")
Slot(i) == <<"W", i>>

\* SharedFrame: the locals with static storage, one copy for all calls
SharedFrame(i) == 1

\* the frame of call i: the locals have automatic storage, one copy a call
FrameOf(i) == i

Witness2(i) == <<"witness2", FrameOf(i)>>
FrameUnit(i) == <<"frame", FrameOf(i)>>
ConcCells ==
    {In(n) : n \in {"P", "x0", "B", "C", "origin"}}
        \cup {Slot(i) : i \in Calls} \cup {<<"witness2", i>> : i \in Calls}
Units == ConcCells \cup {<<"frame", i>> : i \in Calls}

\* the inputs the concurrent calls are run on: an accepted minimizer, and
\* fallbacks decided by the third, the first and the second edge
ConcInputs ==
    {<<Vec(1, 0, 0), Vec(0, 0, 0), Vec(1, 1, 0), Vec(1, 0, 1)>>,
     <<Vec(1, 1, 0), Vec(0, 0, 0), Vec(1, 0, 0), Vec(0, 1, 0)>>,
     <<Vec(-1, 0, 1), Vec(0, 0, 0), Vec(1, 0, 0), Vec(0, 1, 0)>>,
     <<Vec(-1, 1, 0), Vec(0, 0, 0), Vec(1, 0, 0), Vec(0, 1, 0)>>}

ConcMemory(in) ==
    [c \in ConcCells |->
        CASE c = In("P") -> in[1] [] c = In("x0") -> in[2]
          [] c = In("B") -> in[3] [] c = In("C") -> in[4]
          [] c = In("origin") -> Origin
          [] c[1] = "W" -> SlotInit
          [] OTHER -> Uninit]

\* what a caller asks for: the routine, and whether it passes a slot
Requests == <<[fn |-> "seg", slot |-> FALSE], [fn |-> "seg", slot |-> TRUE],
              [fn |-> "tri", slot |-> FALSE], [fn |-> "tri", slot |-> TRUE]>>

NoFrame ==
    [P |-> NullPtr, x0 |-> NullPtr, B |-> NullPtr, C |-> NullPtr,
     w |-> NullPtr, d1 |-> Uninit, d2 |-> Uninit, a |-> Uninit,
     c |-> Uninit, dist |-> Uninit, dist2 |-> Uninit,
     sx0 |-> NullPtr, sb |-> NullPtr, sw |-> NullPtr, sd |-> Uninit,
     sa |-> Uninit, st |-> Uninit, sdist |-> Uninit, retpc |-> "none"]

\* the calls are interchangeable: their requests are taken in order
InitConc ==
    /\ \E in \in ConcInputs : mem = ConcMemory(in)
    /\ mem0 = mem
    /\ \E k \in [Calls -> DOMAIN Requests] :
          /\ \A i \in Calls, j \in Calls : i < j => k[i] <= k[j]
          /\ call = [i \in Calls |->
                        [fn |-> Requests[k[i]].fn,
                         witness |-> IF Requests[k[i]].slot
                                     THEN Slot(i) ELSE NullPtr]]
    /\ ret = [i \in Calls |-> NaN]
    /\ pc = [i \in Calls |-> "call"]
    /\ loc = [i \in Calls |-> NoFrame]
    /\ log = [u \in Units |-> {}]

L(i) == loc[FrameOf(i)]
Goto(i, l) == pc' = [pc EXCEPT ![i] = l]
\* call i writes its frame
Local(i, f) ==
    /\ loc' = [loc EXCEPT ![FrameOf(i)] = f]
    /\ log' = [log EXCEPT ![FrameUnit(i)] = @ \cup {i}]
    /\ UNCHANGED <<mem, mem0, call, ret>>
\* call i writes the cell dst
Store(i, dst, v) ==
    /\ mem' = gjkVec3Copy(mem, dst, v)
    /\ log' = [log EXCEPT ![dst] = @ \cup {i}]
    /\ UNCHANGED <<loc, mem0, call, ret>>
Finish(i, dist) ==
    /\ ret' = [ret EXCEPT ![i] = dist]
    /\ Goto(i, "done")
    /\ UNCHANGED <<mem, mem0, call, loc, log>>
\* the segment routine is entered with these arguments
Enter(f, x0, b, witness, retpc) ==
    [f EXCEPT !.sx0 = x0, !.sb = b, !.sw = witness, !.retpc = retpc]

Invoke(i) ==
    /\ pc[i] = "call"
    /\ Local(i, IF call[i].fn = "seg"
                THEN Enter([L(i) EXCEPT !.P = In("P")], In("x0"), In("B"),
                           call[i].witness, "ret")
                ELSE [L(i) EXCEPT !.P = In("P"), !.x0 = In("x0"),
                                  !.B = In("B"), !.C = In("C"),
                                  !.w = call[i].witness])
    /\ Goto(i, IF call[i].fn = "seg" THEN "s55" ELSE "t114")

\* gjkVec3Sub2(&d, b, x0); gjkVec3Sub2(&a, x0, P)
S55(i) ==
    /\ pc[i] = "s55"
    /\ Local(i, [L(i) EXCEPT !.sd = gjkVec3Sub2(mem[L(i).sb], mem[L(i).sx0]),
                             !.sa = gjkVec3Sub2(mem[L(i).sx0], mem[L(i).P])])
    /\ Goto(i, "s60")

SegTarget(br, witness) ==
    CASE br = "x0" -> "s64" [] br = "b" -> "s68"
      [] OTHER -> IF witness # NullPtr THEN "s73" ELSE "s79"

\* t = ...; t /= ...; and the tests on t
S60(i) ==
    /\ pc[i] = "s60"
    /\ Local(i, [L(i) EXCEPT !.st = SegT(L(i).sd, L(i).sa)])
    /\ Goto(i, SegTarget(SegBranch(SegT(L(i).sd, L(i).sa)), L(i).sw))

\* dist = gjkVec3Dist2(x0, P)
S64(i) ==
    /\ pc[i] = "s64"
    /\ Local(i, [L(i) EXCEPT
                    !.sdist = gjkVec3Dist2(mem[L(i).sx0], mem[L(i).P])])
    /\ Goto(i, IF L(i).sw # NullPtr THEN "s66" ELSE "s85")

\* gjkVec3Copy(witness, x0)
S66(i) ==
    /\ pc[i] = "s66"
    /\ Store(i, L(i).sw, mem[L(i).sx0])
    /\ Goto(i, "s85")

\* dist = gjkVec3Dist2(b, P)
S68(i) ==
    /\ pc[i] = "s68"
    /\ Local(i, [L(i) EXCEPT
                    !.sdist = gjkVec3Dist2(mem[L(i).sb], mem[L(i).P])])
    /\ Goto(i, IF L(i).sw # NullPtr THEN "s70" ELSE "s85")

\* gjkVec3Copy(witness, b)
S70(i) ==
    /\ pc[i] = "s70"
    /\ Store(i, L(i).sw, mem[L(i).sb])
    /\ Goto(i, "s85")

\* gjkVec3Copy(witness, &d)
S73(i) ==
    /\ pc[i] = "s73"
    /\ Store(i, L(i).sw, L(i).sd)
    /\ Goto(i, "s74")

\* gjkVec3Scale(witness, t)
S74(i) ==
    /\ pc[i] = "s74"
    /\ Store(i, L(i).sw, gjkVec3Scale(mem[L(i).sw], L(i).st))
    /\ Goto(i, "s75")

\* gjkVec3Add(witness, x0)
S75(i) ==
    /\ pc[i] = "s75"
    /\ Store(i, L(i).sw, gjkVec3Add(mem[L(i).sw], mem[L(i).sx0]))
    /\ Goto(i, "s76")

\* dist = gjkVec3Dist2(witness, P)
S76(i) ==
    /\ pc[i] = "s76"
    /\ Local(i, [L(i) EXCEPT
                    !.sdist = gjkVec3Dist2(mem[L(i).sw], mem[L(i).P])])
    /\ Goto(i, "s85")

\* gjkVec3Scale(&d, t); gjkVec3Add(&d, &a); dist = gjkVec3Len2(&d)
S79(i) ==
    /\ pc[i] = "s79"
    /\ Local(i, [L(i) EXCEPT
                    !.sd = gjkVec3Add(gjkVec3Scale(L(i).sd, L(i).st), L(i).sa),
                    !.sdist = SegInnerNoWitness(L(i).sd, L(i).sa, L(i).st)])
    /\ Goto(i, "s85")

\* return dist, to the caller
S85Return(i) ==
    /\ pc[i] = "s85"
    /\ L(i).retpc = "ret"
    /\ Finish(i, L(i).sdist)

\* return dist, to the triangle routine
S85Back(i) ==
    /\ pc[i] = "s85"
    /\ L(i).retpc # "ret"
    /\ Goto(i, L(i).retpc)
    /\ UNCHANGED <<mem, mem0, call, ret, loc, log>>

\* gjkVec3Sub2(&d1, B, x0); gjkVec3Sub2(&d2, C, x0); gjkVec3Sub2(&a, x0, P)
T114(i) ==
    /\ pc[i] = "t114"
    /\ Local(i, [L(i) EXCEPT !.d1 = gjkVec3Sub2(mem[L(i).B], mem[L(i).x0]),
                             !.d2 = gjkVec3Sub2(mem[L(i).C], mem[L(i).x0]),
                             !.a = gjkVec3Sub2(mem[L(i).x0], mem[L(i).P])])
    /\ Goto(i, "t118")

TriTarget(c, witness) ==
    IF TriAccept(c.s, c.t)
    THEN IF witness # NullPtr THEN "t135" ELSE "t143"
    ELSE "t151"

\* u = ... r = ...; s = ...; t = ...; and the tests on s and t
T118(i) ==
    /\ pc[i] = "t118"
    /\ Local(i, [L(i) EXCEPT !.c = TriCoefVecs(L(i).d1, L(i).d2, L(i).a)])
    /\ Goto(i, TriTarget(TriCoefVecs(L(i).d1, L(i).d2, L(i).a), L(i).w))

\* gjkVec3Scale(&d1, s); gjkVec3Scale(&d2, t)
T135(i) ==
    /\ pc[i] = "t135"
    /\ Local(i, [L(i) EXCEPT !.d1 = gjkVec3Scale(L(i).d1, L(i).c.s),
                             !.d2 = gjkVec3Scale(L(i).d2, L(i).c.t)])
    /\ Goto(i, "t137")

\* gjkVec3Copy(witness, x0)
T137(i) ==
    /\ pc[i] = "t137"
    /\ Store(i, L(i).w, mem[L(i).x0])
    /\ Goto(i, "t138")

\* gjkVec3Add(witness, &d1)
T138(i) ==
    /\ pc[i] = "t138"
    /\ Store(i, L(i).w, gjkVec3Add(mem[L(i).w], L(i).d1))
    /\ Goto(i, "t139")

\* gjkVec3Add(witness, &d2)
T139(i) ==
    /\ pc[i] = "t139"
    /\ Store(i, L(i).w, gjkVec3Add(mem[L(i).w], L(i).d2))
    /\ Goto(i, "t141")

\* dist = gjkVec3Dist2(witness, P)
T141(i) ==
    /\ pc[i] = "t141"
    /\ Local(i, [L(i) EXCEPT
                    !.dist = gjkVec3Dist2(mem[L(i).w], mem[L(i).P])])
    /\ Goto(i, "t168")

\* dist = s * s * v; dist += ...
T143(i) ==
    /\ pc[i] = "t143"
    /\ Local(i, [L(i) EXCEPT !.dist = TriInnerNoWitness(L(i).c)])
    /\ Goto(i, "t168")

\* __gjkVec3PointSegmentDist2(P, x0, B, witness) is entered
T151(i) ==
    /\ pc[i] = "t151"
    /\ Local(i, Enter(L(i), L(i).x0, L(i).B, L(i).w, "t152"))
    /\ Goto(i, "s55")

\* dist = its result; __gjkVec3PointSegmentDist2(P, x0, C, &witness2) is
\* entered
T152(i) ==
    /\ pc[i] = "t152"
    /\ Local(i, Enter([L(i) EXCEPT !.dist = L(i).sdist],
                      L(i).x0, L(i).C, Witness2(i), "t154"))
    /\ Goto(i, "s55")

EdgeTarget(f, copy, skip) ==
    IF RLt(f.sdist, f.dist) /\ f.w # NullPtr THEN copy ELSE skip

\* dist2 = its result; if (dist2 < dist) dist = dist2
T154(i) ==
    /\ pc[i] = "t154"
    /\ Local(i, [L(i) EXCEPT !.dist2 = L(i).sdist,
                             !.dist = IF RLt(L(i).sdist, L(i).dist)
                                      THEN L(i).sdist ELSE L(i).dist])
    /\ Goto(i, EdgeTarget(L(i), "t157", "t160"))

\* gjkVec3Copy(witness, &witness2)
T157(i) ==
    /\ pc[i] = "t157"
    /\ Store(i, L(i).w, mem[Witness2(i)])
    /\ Goto(i, "t160")

\* __gjkVec3PointSegmentDist2(P, B, C, &witness2) is entered
T160(i) ==
    /\ pc[i] = "t160"
    /\ Local(i, Enter(L(i), L(i).B, L(i).C, Witness2(i), "t161"))
    /\ Goto(i, "s55")

\* dist2 = its result; if (dist2 < dist) dist = dist2
T161(i) ==
    /\ pc[i] = "t161"
    /\ Local(i, [L(i) EXCEPT !.dist2 = L(i).sdist,
                             !.dist = IF RLt(L(i).sdist, L(i).dist)
                                      THEN L(i).sdist ELSE L(i).dist])
    /\ Goto(i, EdgeTarget(L(i), "t164", "t168"))

\* gjkVec3Copy(witness, &witness2)
T164(i) ==
    /\ pc[i] = "t164"
    /\ Store(i, L(i).w, mem[Witness2(i)])
    /\ Goto(i, "t168")

\* return dist
T168(i) ==
    /\ pc[i] = "t168"
    /\ Finish(i, L(i).dist)

SegmentStep(i) ==
    \/ S55(i) \/ S60(i) \/ S64(i) \/ S66(i) \/ S68(i) \/ S70(i) \/ S73(i)
    \/ S74(i) \/ S75(i) \/ S76(i) \/ S79(i) \/ S85Return(i) \/ S85Back(i)

TriangleStep(i) ==
    \/ T114(i) \/ T118(i) \/ T135(i) \/ T137(i) \/ T138(i) \/ T139(i)
    \/ T141(i) \/ T143(i) \/ T151(i) \/ T152(i) \/ T154(i) \/ T157(i)
    \/ T160(i) \/ T161(i) \/ T164(i) \/ T168(i)

NextConc == \E i \in Calls : Invoke(i) \/ SegmentStep(i) \/ TriangleStep(i)

SpecConc == InitConc /\ [][NextConc]_vars

(***************************************************************************)
(* Reference geometry, in which the claims are stated.                     *)
(***************************************************************************)
Done(fn) == pc = "done" /\ call.fn = fn
\* the segment's precondition
SegValid == mem0["B"] # mem0["x0"]
HasSlot == call.witness # NULL

\* x0 + t (b - x0)
SegPoint(x0, b, t) == gjkVec3Add(x0, gjkVec3Scale(gjkVec3Sub2(b, x0), t))
\* t* = -((b - x0) . (x0 - P)) / ((b - x0) . (b - x0))
TStar(P, x0, b) ==
    RDiv(RNeg(gjkVec3Dot(gjkVec3Sub2(b, x0), gjkVec3Sub2(x0, P))),
         gjkVec3Len2(gjkVec3Sub2(b, x0)))
ClampedAt(x0, b, t) ==
    IF RLe(t, GJK_ZERO) THEN x0
    ELSE IF RLe(GJK_ONE, t) THEN b
    ELSE SegPoint(x0, b, t)
\* the point of the closed segment nearest to P
SegNearest(P, x0, b) == ClampedAt(x0, b, TStar(P, x0, b))
SegSamples == {Norm(k, SampleSteps) : k \in 0 .. SampleSteps}

\* x0 + s (B - x0) + t (C - x0)
TriPoint(x0, B, C, s, t) ==
    gjkVec3Add(gjkVec3Add(x0, gjkVec3Scale(gjkVec3Sub2(B, x0), s)),
               gjkVec3Scale(gjkVec3Sub2(C, x0), t))
\* s >= 0, t >= 0, s + t <= 1
InParams(s, t) ==
    RLe(GJK_ZERO, s) /\ RLe(GJK_ZERO, t) /\ RLe(RAdd(s, t), GJK_ONE)
TriSamples ==
    {<<Norm(ij[1], SampleSteps), Norm(ij[2], SampleSteps)>> :
        ij \in {k \in (0 .. SampleSteps) \X (0 .. SampleSteps) :
                    k[1] + k[2] <= SampleSteps}}
\* the coordinates (s, t) of the foot of X in the triangle's plane, by
\* Cramer's rule on the normal equations
FootOf(e, d1, d2) ==
    <<RDiv(RSub(RMul(gjkVec3Dot(e, d1), gjkVec3Len2(d2)),
                RMul(gjkVec3Dot(e, d2), gjkVec3Dot(d1, d2))), Gram(d1, d2)),
      RDiv(RSub(RMul(gjkVec3Dot(e, d2), gjkVec3Len2(d1)),
                RMul(gjkVec3Dot(e, d1), gjkVec3Dot(d1, d2))), Gram(d1, d2))>>
Foot(X, x0, B, C) ==
    FootOf(gjkVec3Sub2(X, x0), gjkVec3Sub2(B, x0), gjkVec3Sub2(C, x0))
InTriangleAt(X, x0, B, C, st) ==
    InParams(st[1], st[2]) /\ X = TriPoint(x0, B, C, st[1], st[2])
\* X is a point of the closed triangle
InTriangle(X, x0, B, C) == InTriangleAt(X, x0, B, C, Foot(X, x0, B, C))
\* no vertex lies on P's side of X: a point X of a convex polygon is its
\* nearest point to P exactly when (P - X) . (V - X) <= 0 for each vertex V
Nearest(X, P, Vs) ==
    \A V \in Vs :
        RLe(gjkVec3Dot(gjkVec3Sub2(P, X), gjkVec3Sub2(V, X)), GJK_ZERO)
\* X is the point of the closed triangle nearest to P
TriNearest(X, P, x0, B, C) ==
    InTriangle(X, x0, B, C) /\ Nearest(X, P, {x0, B, C})
FootPoint(x0, B, C, st) == TriPoint(x0, B, C, st[1], st[2])
\* where the nearest point can be: P's foot in the plane, or on an edge
TriCandidates(P, x0, B, C) ==
    {FootPoint(x0, B, C, Foot(P, x0, B, C)), SegNearest(P, x0, B),
     SegNearest(P, x0, C), SegNearest(P, B, C)}

(***************************************************************************)
(* C1.  Point-segment distance: for b # x0 the returned value is the       *)
(* minimum of |x0 + t (b - x0) - P|^2 over t in [0, 1] (it is the distance *)
(* to the clamped point, which no other point of the segment beats), and   *)
(* the witness written is that clamped point: x0 when t* <= 0, b when      *)
(* t* >= 1, x0 + t* (b - x0) otherwise.                                    *)
(***************************************************************************)
SegmentDistanceIs(P, x0, b, X) ==
    /\ ret = gjkVec3Dist2(X, P)
    /\ Nearest(X, P, {x0, b})
    /\ \A t \in SegSamples : RLe(ret, gjkVec3Dist2(SegPoint(x0, b, t), P))
    /\ HasSlot => mem[call.witness] = X

C1_SegmentDistance ==
    (Done("seg") /\ SegValid) =>
        SegmentDistanceIs(mem0["P"], mem0["x0"], mem0["B"],
                          SegNearest(mem0["P"], mem0["x0"], mem0["B"]))

\* an interior foot that is not a grid point, written to the slot
C1_Witness ==
    /\ Done("seg") /\ SegValid /\ HasSlot
    /\ log.branch = "inner"
    /\ mem["W"][1].d = 3
    /\ ret # GJK_ZERO

(***************************************************************************)
(* C2.  Point-triangle distance: for a non-degenerate triangle the         *)
(* returned value is the minimum of |x0 + s (B - x0) + t (C - x0) - P|^2   *)
(* over s, t >= 0, s + t <= 1, and the witness written lies in the closed  *)
(* triangle at that distance from P, on the accepted branch and on the     *)
(* fallback branch alike.                                                  *)
(***************************************************************************)
TriangleDistanceIs(P, x0, B, C) ==
    /\ \E X \in TriCandidates(P, x0, B, C) :
          TriNearest(X, P, x0, B, C) /\ ret = gjkVec3Dist2(X, P)
    /\ \A st \in TriSamples :
          RLe(ret, gjkVec3Dist2(TriPoint(x0, B, C, st[1], st[2]), P))
    /\ HasSlot =>
          /\ InTriangle(mem[call.witness], x0, B, C)
          /\ gjkVec3Dist2(mem[call.witness], P) = ret

C2_TriangleDistance ==
    Done("tri") =>
        TriangleDistanceIs(mem0["P"], mem0["x0"], mem0["B"], mem0["C"])

\* the fallback found the nearest point inside the third edge
C2_Witness ==
    /\ Done("tri") /\ HasSlot
    /\ log.branch = "fallback" /\ log.from = 3
    /\ log.segs[3].log.branch = "inner"
    /\ ret # GJK_ZERO

(***************************************************************************)
(* C3.  Witness / no-witness consistency: the same call made with the      *)
(* other kind of witness pointer (a slot instead of NULL, NULL instead of  *)
(* a slot) returns the same squared distance and takes the same branches.  *)
(***************************************************************************)
OtherSlot == IF call.witness = NULL THEN "W" ELSE NULL
Branches(l) ==
    IF "segs" \in DOMAIN l
    THEN <<l.branch, [i \in DOMAIN l.segs |-> l.segs[i].log.branch]>>
    ELSE <<l.branch>>
SameOutcome(r) == ret = r.dist /\ Branches(log) = Branches(r.log)

C3_WitnessConsistency ==
    /\ (Done("seg") /\ SegValid) =>
          SameOutcome(gjkVec3PointSegmentDist2(mem0, "P", "x0", "B",
                                               OtherSlot))
    /\ Done("tri") =>
          SameOutcome(gjkVec3PointTriDist2(mem0, "P", "x0", "B", "C",
                                           OtherSlot))

\* an accepted minimizer strictly inside a triangle with d1 . d2 # 0, off P
C3_Witness ==
    /\ Done("tri") /\ ~HasSlot
    /\ log.branch = "accept"
    /\ ret # GJK_ZERO
    /\ gjkVec3Dot(gjkVec3Sub2(mem0["B"], mem0["x0"]),
                  gjkVec3Sub2(mem0["C"], mem0["x0"])) # GJK_ZERO
    /\ ~TriAccept(Foot(mem0["P"], mem0["x0"], mem0["B"], mem0["C"])[1],
                  GJK_ONE)
    /\ RGt(Foot(mem0["P"], mem0["x0"], mem0["B"], mem0["C"])[1], GJK_ZERO)
    /\ RGt(Foot(mem0["P"], mem0["x0"], mem0["B"], mem0["C"])[2], GJK_ZERO)

(***************************************************************************)
(* C4.  Symmetry under vertex relabeling: the call returns the same        *)
(* squared distance for all six orderings of the three vertices.           *)
(***************************************************************************)
Orderings ==
    {<<"x0", "B", "C">>, <<"x0", "C", "B">>, <<"B", "x0", "C">>,
     <<"B", "C", "x0">>, <<"C", "x0", "B">>, <<"C", "B", "x0">>}

C4_RelabelingSymmetry ==
    Done("tri") =>
        \A o \in Orderings :
            gjkVec3PointTriDist2(mem0, "P", o[1], o[2], o[3],
                                 call.witness).dist = ret

\* a fallback whose nearest edge is the one evaluated last
C4_Witness ==
    /\ Done("tri")
    /\ log.branch = "fallback" /\ log.from = 3
    /\ RLt(ret, log.segs[1].dist) /\ RLt(ret, log.segs[2].dist)

(***************************************************************************)
(* C5.  Frame: with a witness slot that is storage of its own, a call      *)
(* leaves P, x0, B, C and the origin vector as they were; it writes the    *)
(* slot when one is supplied, and changes nothing when the slot is NULL.   *)
(***************************************************************************)
Inputs == {"P", "x0", "B", "C", "origin"}

C5_Frame ==
    pc = "done" =>
        /\ \A c \in Inputs : mem[c] = mem0[c]
        /\ HasSlot => mem[call.witness] # mem0[call.witness]
        /\ ~HasSlot => mem = mem0

\* a fallback that went through witness2 with no slot supplied
C5_Witness ==
    /\ Done("tri") /\ ~HasSlot
    /\ log.branch = "fallback" /\ log.from = 2
    /\ "witness2" \in log.wr

(***************************************************************************)
(* C6.  No division by zero on valid input: the segment's divisor          *)
(* |b - x0|^2 and the triangle's divisors w v - r r and w are strictly     *)
(* positive, the three edges handed to the segment routine in the fallback *)
(* have distinct endpoints, and the result is a finite value.              *)
(***************************************************************************)
Positive(x) == RGt(x, GJK_ZERO)

C6_NoDivisionByZero ==
    /\ (Done("seg") /\ SegValid) => Positive(log.div) /\ IsFinite(ret)
    /\ Done("tri") =>
          /\ Positive(log.div[1]) /\ Positive(log.div[2])
          /\ IsFinite(ret) /\ RLe(GJK_ZERO, ret)
          /\ \A i \in DOMAIN log.segs :
                /\ mem0[log.edges[i][1]] # mem0[log.edges[i][2]]
                /\ Positive(log.segs[i].log.div)

\* a fallback on a right-angled triangle (d1 . d2 = 0)
C6_Witness ==
    /\ Done("tri")
    /\ log.branch = "fallback"
    /\ gjkVec3Dot(gjkVec3Sub2(mem0["B"], mem0["x0"]),
                  gjkVec3Sub2(mem0["C"], mem0["x0"])) = GJK_ZERO

(***************************************************************************)
(* C7.  Degenerate segment (b = x0).  As claimed: the call yields a        *)
(* defined result, not one obtained by dividing by the zero squared        *)
(* length.                                                                 *)
(***************************************************************************)
C7_DegenerateGuarded ==
    (Done("seg") /\ ~SegValid) => IsFinite(ret)

(***************************************************************************)
(* C7, as the code has it: there is no guard.  With b = x0 the call        *)
(* divides by the zero squared length, neither endpoint test holds for the *)
(* resulting t, and the interior branch returns a value that is not a      *)
(* number, writing a witness that is not a point when a slot is supplied.  *)
(***************************************************************************)
C7_DegenerateUnguarded ==
    (Done("seg") /\ ~SegValid) =>
        /\ log.div = GJK_ZERO
        /\ log.branch = "inner"
        /\ ret = NaN
        /\ HasSlot => mem[call.witness] = <<NaN, NaN, NaN>>

C7_Witness ==
    /\ Done("seg") /\ ~SegValid /\ HasSlot
    /\ mem0["P"] # mem0["x0"]

(***************************************************************************)
(* C9.  Branch selection and edge fallback: the accepted branch is taken,  *)
(* with no segment call, exactly when the unconstrained minimizer passes   *)
(* the five tolerance-aware tests; otherwise the segment routine is run    *)
(* exactly three times, on (x0,B), (x0,C), (B,C) in that order, the result *)
(* is the least of the three distances, and the witness is that of the     *)
(* first edge that attains it.                                             *)
(***************************************************************************)
GJK_EPS == Norm(1, EpsDen)
\* x >= y and x <= y up to the tolerance
TolGe(x, y) == RGt(x, RSub(y, GJK_EPS))
TolLe(x, y) == RLt(x, RAdd(y, GJK_EPS))
InTolerance(st) ==
    /\ TolGe(st[1], GJK_ZERO) /\ TolLe(st[1], GJK_ONE)
    /\ TolGe(st[2], GJK_ZERO) /\ TolLe(st[2], GJK_ONE)
    /\ TolLe(RAdd(st[1], st[2]), GJK_ONE)
EdgeOrder == << <<"x0", "B">>, <<"x0", "C">>, <<"B", "C">> >>
EdgeResult(i, slot) ==
    gjkVec3PointSegmentDist2(mem0, "P", EdgeOrder[i][1], EdgeOrder[i][2],
                             slot)
\* the first edge among those whose distance no other edge beats
FirstLeast(ds) ==
    CHOOSE i \in 1 .. 3 :
        /\ \A j \in 1 .. 3 : RLe(ds[i], ds[j])
        /\ \A j \in 1 .. (i - 1) : RLt(ds[i], ds[j])
FallbackIs(ds, k) ==
    /\ Len(log.segs) = 3
    /\ [i \in 1 .. 3 |-> <<log.edges[i][1], log.edges[i][2]>>] = EdgeOrder
    /\ \A i \in 1 .. 3 : log.segs[i].dist = ds[i]
    /\ ret = ds[k]
    /\ log.from = k
    /\ HasSlot => mem[call.witness] = EdgeResult(k, "W").mem["W"]
FallbackOf(ds) == FallbackIs(ds, FirstLeast(ds))

C10_AliasIndependent ==
    /\ (Done("seg") /\ SegValid /\ call.witness = "P") =>
          ret = gjkVec3PointSegmentDist2(mem0, "P", "x0", "B", "W").dist
    /\ (Done("tri") /\ call.witness = "P") =>
          ret = gjkVec3PointTriDist2(mem0, "P", "x0", "B", "C", "W").dist

(***************************************************************************)
(* C8.  Re-entrancy: with the calls' steps interleaved in any order, every *)
(* call returns the squared distance, and writes the witness, that it      *)
(* returns and writes when run alone; the inputs and the origin vector are *)
(* written by no call, and a call's slot, frame and witness2 by that call  *)
(* only.                                                                   *)
(***************************************************************************)
AloneMemory ==
    Memory(mem0[In("P")], mem0[In("x0")], mem0[In("B")], mem0[In("C")])
AloneSlot(i) == IF call[i].witness = NullPtr THEN NULL ELSE "W"
\* the call of i, made on its own
Alone(i) ==
    IF call[i].fn = "seg"
    THEN gjkVec3PointSegmentDist2(AloneMemory, "P", "x0", "B", AloneSlot(i))
    ELSE gjkVec3PointTriDist2(AloneMemory, "P", "x0", "B", "C", AloneSlot(i))
AsAlone(i, r) ==
    /\ ret[i] = r.dist
    /\ mem[Slot(i)] = r.mem["W"]
Owners(u) == IF u[2] = 0 THEN {} ELSE {u[2]}

C8_Reentrancy ==
    /\ \A i \in Calls : pc[i] = "done" => AsAlone(i, Alone(i))
    /\ \A u \in Units : log[u] \subseteq Owners(u)
    /\ \A c \in ConcCells : c[2] = 0 => mem[c] = mem0[c]

\* two triangle calls in their fallbacks at once, each having written its
\* witness2, and one of them done while the other is inside the segment
\* routine
C8_Witness ==
    /\ call[1].fn = "tri" /\ call[2].fn = "tri"
    /\ call[2].witness # NullPtr
    /\ pc[2] = "done" /\ pc[1] = "s60"
    /\ L(1).retpc = "t161"
    /\ log[<<"witness2", 1>>] = {1} /\ log[<<"witness2", 2>>] = {2}

=============================================================================
